---- MODULE Spec2Model ----
(***************************************************************************)
(* Model of the Nortsur WhatsApp bot (src/main.py): the duplicate filter,  *)
(* the text classification and order parsing helpers, the dialogue         *)
(* function enviar_pedido_a_nortsur and the POST /webhook handler.         *)
(*                                                                         *)
(* Message bodies are sequences of one-character strings, so lower(),      *)
(* strip(), split() and the regular expressions are computed character by  *)
(* character.  Reply texts are sequences of text fragments: the marker     *)
(* "__NO_CLIENTE__" is one fragment, and startswith / slicing work on      *)
(* fragments.                                                              *)
(***************************************************************************)
EXTENDS Integers, Sequences, FiniteSets, TLC

(***************************************************************************)
(* Bounds of the model.                                                    *)
(***************************************************************************)
\* maxlen of the deque PROCESSED_MESSAGES; 1000 in the program
\* (src/main.py:34), scaled down so that eviction is reachable.
Capacity == 2

\* messages carried by one webhook delivery
MaxMsgs == 2

\* image files found in the no_cliente directory at start-up
MaxImgs == 2

\* is_duplicate_message calls in the stand-alone duplicate-filter specification
MaxCalls == 5

\* pieces (tokens or empty entries) of a text handed to parse_items_from_text
\* in the stand-alone parser specification
MaxPieces == 3

\* Non-empty message ids: one more than the deque holds, so that a full
\* deque can always be handed an id it does not hold.
Ids == 1 .. (Capacity + 1)

\* message.get("id") when the field is missing (None, -1) or empty ("", 0);
\* both are falsy for `not message_id`.
FalsyIds == {-1, 0}

Handlers == {1, 2}

(***************************************************************************)
(* Characters and strings.                                                 *)
(***************************************************************************)
UpperAlpha ==
    <<"A","B","C","D","E","F","G","H","I","J","K","L","M","N","O","P","Q",
      "R","S","T","U","V","W","X","Y","Z","Á","É","Í","Ó","Ú","Ñ">>

LowerAlpha ==
    <<"a","b","c","d","e","f","g","h","i","j","k","l","m","n","o","p","q",
      "r","s","t","u","v","w","x","y","z","á","é","í","ó","ú","ñ">>

AsciiUpper == {UpperAlpha[i] : i \in 1..26}

DigitChars == <<"0","1","2","3","4","5","6","7","8","9">>

IsDigit(c) == \E i \in 1..10 : DigitChars[i] = c

DigitValue(c) == (CHOOSE i \in 1..10 : DigitChars[i] = c) - 1

\* str.isspace for the characters that occur in message bodies
IsSpace(c) == c \in {" ", "\n", "\t", "\r"}

ToLower(c) ==
    IF \E i \in 1..Len(UpperAlpha) : UpperAlpha[i] = c
    THEN LowerAlpha[CHOOSE i \in 1..Len(UpperAlpha) : UpperAlpha[i] = c]
    ELSE c

ToUpper(c) ==
    IF \E i \in 1..Len(LowerAlpha) : LowerAlpha[i] = c
    THEN UpperAlpha[CHOOSE i \in 1..Len(LowerAlpha) : LowerAlpha[i] = c]
    ELSE c

Lower(s) == [i \in 1..Len(s) |-> ToLower(s[i])]

Upper(s) == [i \in 1..Len(s) |-> ToUpper(s[i])]

RECURSIVE LStrip(_)
LStrip(s) ==
    IF s # <<>> /\ IsSpace(Head(s)) THEN LStrip(Tail(s)) ELSE s

RECURSIVE RStrip(_)
RStrip(s) ==
    IF s # <<>> /\ IsSpace(s[Len(s)]) THEN RStrip(SubSeq(s, 1, Len(s) - 1)) ELSE s

\* str.strip()
Strip(s) == RStrip(LStrip(s))

\* `p in s` for strings
Contains(s, p) ==
    \E i \in 0 .. (Len(s) - Len(p)) : SubSeq(s, i + 1, i + Len(p)) = p

\* s.startswith(p)
StartsWith(s, p) == Len(s) >= Len(p) /\ SubSeq(s, 1, Len(p)) = p

\* The non-empty pieces of s between separator characters, in order.
\* IsSep[c] tells whether c separates.
RECURSIVE SplitOn(_, _, _)
SplitOn(s, seps, cur) ==
    IF s = <<>>
    THEN (IF cur = <<>> THEN <<>> ELSE <<cur>>)
    ELSE IF Head(s) \in seps
         THEN (IF cur = <<>> THEN <<>> ELSE <<cur>>) \o SplitOn(Tail(s), seps, <<>>)
         ELSE SplitOn(Tail(s), seps, Append(cur, Head(s)))

\* Every piece of s between separator characters, empty ones included
\* (str.split(sep) with a one-character separator).
RECURSIVE SplitAll(_, _, _)
SplitAll(s, seps, cur) ==
    IF s = <<>>
    THEN <<cur>>
    ELSE IF Head(s) \in seps
         THEN <<cur>> \o SplitAll(Tail(s), seps, <<>>)
         ELSE SplitAll(Tail(s), seps, Append(cur, Head(s)))

\* str.split(): whitespace-separated tokens, none empty
SplitWhitespace(s) == SplitOn(s, {" ", "\n", "\t", "\r"}, <<>>)

\* str.splitlines(): no trailing empty line, and none for the empty string
SplitLines(s) ==
    LET parts == SplitAll(s, {"\n", "\r"}, <<>>)
    IN  IF parts[Len(parts)] = <<>> THEN SubSeq(parts, 1, Len(parts) - 1) ELSE parts

\* Characters str.isdigit() takes for digits and int() does not: the
\* superscript digits and the like (Unicode digits that are not decimals).
NonDecimalDigits == {"²"}

\* str.isdigit(): non-empty and all digits, decimal or not
IsDigitStr(s) ==
    s # <<>> /\ \A i \in 1..Len(s) : IsDigit(s[i]) \/ s[i] \in NonDecimalDigits

\* int(s) raises ValueError: s is not a string of decimal digits
IntRaises(s) == s = <<>> \/ \E i \in 1..Len(s) : ~IsDigit(s[i])

\* int(s) for a string of decimal digits
RECURSIVE IntOf(_)
IntOf(s) ==
    IF s = <<>> THEN 0 ELSE 10 * IntOf(SubSeq(s, 1, Len(s) - 1)) + DigitValue(s[Len(s)])

\* s.replace(c, "")
RemoveChar(s, c) == SelectSeq(s, LAMBDA ch : ch # c)

Range(s) == {s[i] : i \in 1..Len(s)}

(***************************************************************************)
(* Duplicate filter (src/main.py:34-45).                                   *)
(***************************************************************************)
\* deque.append on a deque with maxlen: a full deque drops its left end
DequeAppendUnbounded(q, id) == Append(q, id)

DequeAppendDropNewest(q, id) ==
    IF Len(q) >= Capacity THEN Append(SubSeq(q, 1, Len(q) - 1), id) ELSE Append(q, id)

DequeAppend(q, id) ==
    IF Len(q) >= Capacity THEN Append(Tail(q), id) ELSE Append(q, id)

\* return value of is_duplicate_message
IsDupNeverMember(q, id) == FALSE

IsDuplicateResult(q, id) ==
    IF id \in FalsyIds THEN FALSE ELSE id \in Range(q)

\* PROCESSED_MESSAGES after is_duplicate_message(id)
ProcessedNoInsert(q, id) == q

ProcessedAppendSiempre(q, id) == DequeAppend(q, id)

ProcessedAfter(q, id) ==
    IF id \in FalsyIds \/ IsDuplicateResult(q, id) THEN q ELSE DequeAppend(q, id)

(***************************************************************************)
(* Business helpers (src/main.py:138-198).                                 *)
(***************************************************************************)
\* CODIGO_REGEX = ^[A-Z]{2}\d{3}$
CodigoRegexMatch(tok) ==
    /\ Len(tok) = 5
    /\ tok[1] \in AsciiUpper /\ tok[2] \in AsciiUpper
    /\ IsDigit(tok[3]) /\ IsDigit(tok[4]) /\ IsDigit(tok[5])

\* the tokens of re.split(r"[,\s\n]+", s) that are not empty
CodeTokens(s) == SplitOn(s, {",", " ", "\n", "\t", "\r"}, <<>>)

contiene_codigos(text) ==
    \E i \in 1..Len(CodeTokens(Upper(text))) :
        CodigoRegexMatch(CodeTokens(Upper(text))[i])

RECURSIVE Flatten(_)
Flatten(ss) == IF ss = <<>> THEN <<>> ELSE Head(ss) \o Flatten(Tail(ss))

\* [p.strip() for p in linea.split(",") if p.strip()]
PartesDeLinea(linea) ==
    LET ps == SplitAll(linea, {","}, <<>>)
        stripped == [i \in 1..Len(ps) |-> Strip(ps[i])]
    IN  SelectSeq(stripped, LAMBDA p : p # <<>>)

\* partes_brutas of parse_items_from_text
PartesBrutas(text) ==
    LET lineas == SplitLines(text)
    IN  Flatten([i \in 1..Len(lineas) |-> PartesDeLinea(lineas[i])])

\* tok.lower().replace("x", "")
TokClean(tok) == RemoveChar(Lower(tok), "x")

\* the quantity loop over tokens[1:] ends in a ValueError: the first token
\* that isdigit() accepts, once cleaned, is one int() rejects
RECURSIVE CantidadRaises(_)
CantidadRaises(toks) ==
    IF toks = <<>> THEN FALSE
    ELSE IF IsDigitStr(TokClean(Head(toks))) THEN IntRaises(TokClean(Head(toks)))
    ELSE CantidadRaises(Tail(toks))

\* the quantity loop over tokens[1:]: the first token that is all digits
\* once lower-cased and stripped of "x"; 1 when there is none
RECURSIVE CantidadDe(_)
CantidadDe(toks) ==
    IF toks = <<>> THEN 1
    ELSE LET tok_clean == TokClean(Head(toks))
         IN  IF IsDigitStr(tok_clean) THEN IntOf(tok_clean) ELSE CantidadDe(Tail(toks))

ItemDeParte(parte) ==
    LET tokens == SplitWhitespace(parte)
    IN  [codigo |-> Upper(Strip(tokens[1])), cantidad |-> CantidadDe(Tail(tokens))]

\* the parts the item loop does not skip
PartesConTokens(text) ==
    SelectSeq(PartesBrutas(text), LAMBDA p : SplitWhitespace(p) # <<>>)

\* parse_items_from_text(text) raises ValueError instead of returning
parse_items_raises(text) ==
    \E i \in 1..Len(PartesConTokens(text)) :
        CantidadRaises(Tail(SplitWhitespace(PartesConTokens(text)[i])))

\* the list parse_items_from_text(text) returns, when it returns
parse_items_from_text(text) ==
    [i \in 1..Len(PartesConTokens(text)) |-> ItemDeParte(PartesConTokens(text)[i])]

\* int(re.findall(r"\d+", text)[0]) when there is a run of digits, else 1
RECURSIVE FirstDigitRun(_, _)
FirstDigitRun(s, cur) ==
    IF s = <<>> THEN cur
    ELSE IF IsDigit(Head(s)) THEN FirstDigitRun(Tail(s), Append(cur, Head(s)))
    ELSE IF cur # <<>> THEN cur
    ELSE FirstDigitRun(Tail(s), cur)

CantidadLibre(text) ==
    IF FirstDigitRun(text, <<>>) = <<>> THEN 1 ELSE IntOf(FirstDigitRun(text, <<>>))

\* the keyword list of the greeting test (src/main.py:331-342)
PalabrasSaludo ==
    { <<"h","o","l","a">>,
      <<"b","u","e","n","a","s">>,
      <<"b","u","e","n"," ","d","i","a">>,
      <<"b","u","e","n"," ","d","í","a">>,
      <<"m","e","n","u">>,
      <<"m","e","n","ú">>,
      <<"p","r","o","d","u","c","t","o","s">>,
      <<"c","a","t","á","l","o","g","o">>,
      <<"c","a","t","a","l","o","g","o">>,
      <<"a","y","u","d","a">> }

\* any(palabra in lower for palabra in [...])
EsSaludo(text_body) == \E palabra \in PalabrasSaludo : Contains(Lower(text_body), palabra)

(***************************************************************************)
(* Reply texts (src/main.py:252-306, 359, 375-397).                        *)
(***************************************************************************)
\* the marker enviar_pedido_a_nortsur prepends for a greeting of a non-client
MarcaNoCliente == <<"__NO_CLIENTE__">>

mensaje_formato_inicial == <<"No pude entender el pedido">>

mensaje_bienvenida(nombre, es_cliente) ==
    IF es_cliente
    THEN <<"Hola ">> \o Strip(nombre)
            \o <<", soy el asistente de pedidos de *Nortsur*.", "Podés hacer tu pedido">>
    ELSE <<"Hola, soy el asistente de pedidos de *Nortsur*.", "Si ya sos cliente",
           "Te dejo algunos productos destacados", "Si todavía no sos cliente">>

mensaje_error_generico == <<"Tuvimos un error al registrar tu pedido">>

MensajeSinCoincidencias == <<"No encontré ningún producto que coincida con tu mensaje">>

\* one line of the candidate list: "- {codigo} {nombre}".strip() and the
\* presentation in parentheses when the product has one
LineaProducto(p) ==
    Strip(<<"- ">> \o p.codigo \o <<" ">> \o p.nombre)
        \o (IF p.presentacion # <<>> THEN <<" (">> \o p.presentacion \o <<")">> ELSE <<>>)

RECURSIVE JoinLineas(_)
JoinLineas(ls) ==
    IF ls = <<>> THEN <<>>
    ELSE IF Len(ls) = 1 THEN Head(ls)
    ELSE Head(ls) \o <<"\n">> \o JoinLineas(Tail(ls))

MensajeVariosProductos(productos) ==
    <<"Encontré varios productos que coinciden con tu descripción:">>
        \o JoinLineas([i \in 1..Len(productos) |-> LineaProducto(productos[i])])
        \o <<"Por favor, respondé con el *código* del que querés">>

\* posibles_paths (src/main.py:418-423)
posibles_paths ==
    <<"/bot/pedidos/from-whatsapp", "/bot/pedidos/from-whatsapp/",
      "/pedidos/from-whatsapp", "/pedidos/from-whatsapp/">>

(***************************************************************************)
(* Inputs: what the platform delivers and what the backend answers.        *)
(***************************************************************************)
BodyBlank == <<" ">>

BodyHola == <<"H","o","l","a">>

BodyHolaCodigo == <<"h","o","l","a"," ","C","B","0","0","1">>

BodyHelloCodigo == <<"h","e","l","l","o"," ","C","B","0","0","1">>

BodyCodigos == <<"C","B","0","0","1"," ","x","2",","," ","p","n","0","0","4">>

BodyCodigoCero == <<"C","B","0","0","1"," ","x","0">>

BodyLibre == <<"m","a","y","o"," ","x","3">>

BodyCancelar == <<"c","a","n","c","e","l","a","r"," ","7">>

Phone == "5491162519659"

Producto1 ==
    [codigo |-> <<"C","B","0","0","1">>, nombre |-> <<"Combo">>, presentacion |-> <<"x6">>]

Producto2 ==
    [codigo |-> <<"P","N","0","0","4">>, nombre |-> <<"Pan">>, presentacion |-> <<>>]

\* resp.json() of an order-creation answer: a dict with "ok" and
\* "mensaje_respuesta" (msg_kind: a string, null, or no such key), the empty
\* dict, or a body that is not JSON
Json(ok, msg_kind, msg) == [kind |-> "dict", ok |-> ok, msg_kind |-> msg_kind, msg |-> msg]

NoData == [kind |-> "none", ok |-> FALSE, msg_kind |-> "absent", msg |-> <<>>]

EmptyDict == [kind |-> "empty", ok |-> FALSE, msg_kind |-> "absent", msg |-> <<>>]

BadJson == [kind |-> "bad_json", ok |-> FALSE, msg_kind |-> "absent", msg |-> <<>>]

PedidoRegistrado == <<"Pedido #12 registrado">>

NoSosCliente == <<"No sos cliente">>

\* the event loop runs one handler task, or two concurrently; with two, the
\* inputs are drawn from the failure-free subsets
Concurrent(t) == Cardinality(t) > 1

AllBodies ==
    {BodyBlank, BodyHola, BodyHolaCodigo, BodyCodigos, BodyCodigoCero, BodyLibre,
     BodyCancelar, BodyHelloCodigo}

BodiesIn(t) == IF Concurrent(t) THEN {BodyHola, BodyCodigos, BodyLibre} ELSE AllBodies

\* The messages of a delivery, without their id: one that is not a text, a
\* text without sender, and a text from Phone with each body.
MessagesIn(t) ==
    {[type |-> "image", from |-> Phone, body |-> BodyHola],
     [type |-> "text", from |-> "", body |-> BodyHola]}
    \cup {[type |-> "text", from |-> Phone, body |-> b] : b \in BodiesIn(t)}

\* Values of message.get("id") for a delivery met with q in the deque: no
\* id, an id q holds (a replay), or an id q does not hold.  Ids are opaque
\* and, until the deque is full, nothing was evicted and the ids it does
\* not hold were never seen: the least of them stands for all.  A full
\* deque leaves one id out, the Ids being one more than it holds.
FirstTimeIds(q) ==
    IF Ids \ Range(q) = {} THEN {}
    ELSE {CHOOSE i \in Ids \ Range(q) : \A j \in Ids \ Range(q) : i <= j}

IdsIn(t, q) ==
    (IF Concurrent(t) THEN {0} ELSE FalsyIds) \cup Range(q) \cup FirstTimeIds(q)

\* answers to GET /clientes/by-phone/{telefono}
LookupAnswers(t) ==
    IF Concurrent(t)
    THEN {[kind |-> "status_404", nombre |-> <<>>],
          [kind |-> "json", nombre |-> <<"A","n","a">>]}
    ELSE {[kind |-> "request_error", nombre |-> <<>>],
          [kind |-> "status_404", nombre |-> <<>>],
          [kind |-> "status_other", nombre |-> <<>>],
          [kind |-> "bad_json", nombre |-> <<>>],
          [kind |-> "json", nombre |-> <<"A","n","a">>],
          [kind |-> "json", nombre |-> <<" ">>],
          [kind |-> "json", nombre |-> <<>>]}

\* answers to GET /bot/productos/buscar
SearchAnswers(t) ==
    IF Concurrent(t) THEN {[kind |-> "json", productos |-> <<Producto1, Producto2>>]}
    ELSE
    {[kind |-> "error", productos |-> <<>>],
     [kind |-> "json", productos |-> <<>>],
     [kind |-> "json", productos |-> <<Producto1>>],
     [kind |-> "json", productos |-> <<Producto1, Producto2>>]}

\* answers to one POST of the order: a transport error (the request may or
\* may not have landed at the backend before it), or a status with a body
PostAnswers(t) ==
    IF Concurrent(t)
    THEN {[kind |-> "status", code |-> 404, landed |-> FALSE, data |-> NoData],
          [kind |-> "status", code |-> 200, landed |-> TRUE,
           data |-> Json(TRUE, "str", PedidoRegistrado)]}
    ELSE {[kind |-> "request_error", code |-> 0, landed |-> l, data |-> NoData] :
              l \in BOOLEAN}
         \cup {[kind |-> "status", code |-> c, landed |-> FALSE, data |-> NoData] :
              c \in {404, 405, 500}}
         \cup {[kind |-> "status", code |-> 200, landed |-> d.ok, data |-> d] :
              d \in {Json(TRUE, "str", PedidoRegistrado),
                     Json(TRUE, "str", MarcaNoCliente \o PedidoRegistrado),
                     Json(TRUE, "null", <<>>),
                     Json(TRUE, "absent", <<>>),
                     Json(FALSE, "str", NoSosCliente),
                     Json(FALSE, "str", MarcaNoCliente \o NoSosCliente),
                     Json(FALSE, "str", <<>>),
                     Json(FALSE, "absent", <<>>),
                     EmptyDict, BadJson}}

\* outcome of one call of the send capability
SendOutcomes(t) == IF Concurrent(t) THEN {TRUE} ELSE BOOLEAN

\* Texts handed to parse_items_from_text on its own: up to MaxPieces pieces
\* (a code, a lone "x", quantities with an x, zero, a signed number, a digit
\* that is not a decimal, or nothing) with a space, a comma or a line break
\* between two pieces.
Pieces == {<<>>, <<"c">>, <<"x">>, <<"X","2">>, <<"0">>, <<"-","2">>, <<"²">>}

Separators == {<<" ">>, <<",">>, <<"\n">>}

RECURSIVE TextsOf(_)
TextsOf(n) ==
    IF n <= 1 THEN Pieces
    ELSE TextsOf(n - 1)
         \cup {t \o sep \o p : t \in TextsOf(n - 1), sep \in Separators, p \in Pieces}

Texts == TextsOf(MaxPieces)

(***************************************************************************)
(* State.                                                                  *)
(***************************************************************************)
VARIABLES
    PROCESSED_MESSAGES,      \* the deque of recent message ids
    NORTSUR_API_BASE_URL,    \* TRUE when the backend base URL is configured
    IMGS_NO_CLIENTE,         \* image URLs listed at start-up, sorted
    tasks,                   \* the handler tasks the event loop runs
    pc,                      \* where each handler task stands
    left,                    \* messages of the delivery not yet looked at
    ack,                     \* what the handler last answered the platform
    msg,                     \* wa_message_id, wa_phone, text_body of the message in hand
    respuesta,               \* reply text of the message in hand
    items,                   \* order items of the message in hand
    path,                    \* index of the next alias of posibles_paths to POST to,
                             \* then of the next URL of IMGS_NO_CLIENTE to send
    out,                     \* sends attempted for the message in hand, in order
    ev,                      \* what happened while handling the message in hand;
                             \* evicted: its id left the deque meanwhile
    hist,                    \* is_duplicate_message calls made directly, in order
    parse_in,                \* text of a direct call of parse_items_from_text
    parse_out                \* what that call returned or raised

vars ==
    <<PROCESSED_MESSAGES, NORTSUR_API_BASE_URL, IMGS_NO_CLIENTE, tasks, pc, left,
      ack, msg, respuesta, items, path, out, ev, hist, parse_in, parse_out>>

parser == <<parse_in, parse_out>>

config == <<NORTSUR_API_BASE_URL, IMGS_NO_CLIENTE, tasks>>

NoMsg == [id |-> -1, from |-> "", body |-> <<>>]

NoLookup == [kind |-> "none", nombre |-> <<>>]

NoEv ==
    [member |-> FALSE, branch |-> "none", lookup |-> NoLookup,
     search |-> "none", nres |-> -1, posts |-> 0, last |-> 0, created |-> 0, data |-> NoData,
     evicted |-> FALSE, body |-> <<>>, asked |-> <<>>]

NotParsed == [done |-> FALSE, raises |-> FALSE, items |-> <<>>]

ImageUrl(i) == <<"https://pedidos.nexouno.com.ar/img/no_cliente/", i>>

\* load_image_urls("no_cliente"): the sorted listing, possibly empty
ImageListings == {[i \in 1..n |-> ImageUrl(i)] : n \in 0..MaxImgs}

IdleState ==
    /\ pc = [h \in Handlers |-> "idle"]
    /\ left = [h \in Handlers |-> 0]
    /\ ack = [h \in Handlers |-> "none"]
    /\ msg = [h \in Handlers |-> NoMsg]
    /\ respuesta = [h \in Handlers |-> <<>>]
    /\ items = [h \in Handlers |-> <<>>]
    /\ path = [h \in Handlers |-> 1]
    /\ out = [h \in Handlers |-> <<>>]
    /\ ev = [h \in Handlers |-> NoEv]
    /\ parse_out = NotParsed

\* One handler task; any start-up configuration.
Init ==
    /\ PROCESSED_MESSAGES = <<>>
    /\ NORTSUR_API_BASE_URL \in BOOLEAN
    /\ IMGS_NO_CLIENTE \in ImageListings
    /\ tasks = {1}
    /\ hist = <<>>
    /\ parse_in = <<>>
    /\ IdleState

\* Two handler tasks; the backend configured.
InitConc ==
    /\ PROCESSED_MESSAGES = <<>>
    /\ NORTSUR_API_BASE_URL = TRUE
    /\ IMGS_NO_CLIENTE = <<ImageUrl(1)>>
    /\ tasks = Handlers
    /\ hist = <<>>
    /\ parse_in = <<>>
    /\ IdleState

\* No handler task: is_duplicate_message called directly.
InitDedup ==
    /\ PROCESSED_MESSAGES = <<>>
    /\ NORTSUR_API_BASE_URL = TRUE
    /\ IMGS_NO_CLIENTE = <<>>
    /\ tasks = {}
    /\ hist = <<>>
    /\ parse_in = <<>>
    /\ IdleState

\* No handler task: parse_items_from_text called directly on a text.
InitParse ==
    /\ PROCESSED_MESSAGES = <<>>
    /\ NORTSUR_API_BASE_URL = TRUE
    /\ IMGS_NO_CLIENTE = <<>>
    /\ tasks = {}
    /\ hist = <<>>
    /\ parse_in \in Texts
    /\ IdleState

(***************************************************************************)
(* is_duplicate_message called on its own (src/main.py:37-45).             *)
(***************************************************************************)
IsDuplicateCall(id) ==
    /\ tasks = {}
    /\ Len(hist) < MaxCalls
    /\ hist' = Append(hist, [id |-> id, dup |-> IsDuplicateResult(PROCESSED_MESSAGES, id),
                             before |-> PROCESSED_MESSAGES])
    /\ PROCESSED_MESSAGES' = ProcessedAfter(PROCESSED_MESSAGES, id)
    /\ UNCHANGED <<config, parser, pc, left, ack, msg, respuesta, items, path, out, ev>>

(***************************************************************************)
(* parse_items_from_text called on its own (src/main.py:164-198).          *)
(***************************************************************************)
ParseItems ==
    /\ ~parse_out.done
    /\ parse_out' =
         IF parse_items_raises(parse_in)
         THEN [done |-> TRUE, raises |-> TRUE, items |-> <<>>]
         ELSE [done |-> TRUE, raises |-> FALSE, items |-> parse_items_from_text(parse_in)]
    /\ UNCHANGED <<PROCESSED_MESSAGES, config, parse_in, pc, left, ack, msg, respuesta,
                   items, path, out, ev, hist>>

(***************************************************************************)
(* enviar_pedido_a_nortsur (src/main.py:312-456), cut at its awaits.       *)
(***************************************************************************)
\* `not text_body` (src/main.py:323)
CuerpoVacioNunca(text_body) == FALSE

CuerpoVacio(text_body) == text_body = <<>>

\* Lines 319-369, up to the first await: where the handler goes next, with
\* the reply when it is already known.
PedidoInicio(configured, body) ==
    LET text_body == Strip(body)
        parsed == parse_items_from_text(text_body)
    IN  IF ~configured
        THEN [pc |-> "send_text", respuesta |-> mensaje_error_generico,
              items |-> <<>>, branch |-> "config_error"]
        ELSE IF CuerpoVacio(text_body)
        THEN [pc |-> "send_text", respuesta |-> mensaje_formato_inicial,
              items |-> <<>>, branch |-> "empty"]
        ELSE IF EsSaludo(text_body)
        THEN [pc |-> "lookup", respuesta |-> <<>>, items |-> <<>>, branch |-> "saludo"]
        ELSE IF contiene_codigos(text_body)
        THEN (IF parse_items_raises(text_body)
              THEN [pc |-> "send_text", respuesta |-> mensaje_error_generico,
                    items |-> <<>>, branch |-> "codigos"]
              ELSE IF parsed = <<>>
              THEN [pc |-> "send_text", respuesta |-> mensaje_formato_inicial,
                    items |-> <<>>, branch |-> "codigos"]
              ELSE [pc |-> "post", respuesta |-> <<>>, items |-> parsed,
                    branch |-> "codigos"])
        ELSE [pc |-> "search", respuesta |-> <<>>, items |-> <<>>,
              branch |-> "descripcion"]

\* PedidoInicio for every configuration and body, computed once
PedidoInicioDe == [c \in BOOLEAN, b \in AllBodies |-> PedidoInicio(c, b)]

\* buscar_cliente_por_telefono (src/main.py:201-233) on a backend answer:
\* the client record, None, or an exception for an unexpected status
BuscarClienteResultado(answer) ==
    [raises |-> answer.kind = "status_other",
     cliente |-> answer.kind = "json",
     nombre |-> IF answer.kind = "json" THEN answer.nombre ELSE <<>>]

\* nombre_cliente after lines 344-351
NombreCliente(answer) ==
    LET r == BuscarClienteResultado(answer)
    IN  IF ~r.raises /\ r.cliente THEN Strip(r.nombre) ELSE <<>>

\* the return of the greeting branch (src/main.py:353-359)
RespuestaSaludoSinMarca(answer) ==
    IF NombreCliente(answer) # <<>>
    THEN mensaje_bienvenida(NombreCliente(answer), TRUE)
    ELSE mensaje_bienvenida(<<>>, FALSE)

RespuestaSaludo(answer) ==
    IF NombreCliente(answer) # <<>>
    THEN mensaje_bienvenida(NombreCliente(answer), TRUE)
    ELSE MarcaNoCliente \o mensaje_bienvenida(<<>>, FALSE)

\* lines 368-409 on the answer of the product search
RespuestaBusquedaPideSiempre(answer, text_body) ==
    IF answer.kind = "error"
    THEN [pc |-> "send_text", respuesta |-> mensaje_error_generico, items |-> <<>>]
    ELSE IF answer.productos = <<>>
    THEN [pc |-> "send_text", respuesta |-> MensajeSinCoincidencias, items |-> <<>>]
    ELSE [pc |-> "post", respuesta |-> <<>>,
          items |-> <<[codigo |-> answer.productos[1].codigo,
                       cantidad |-> CantidadLibre(text_body)]>>]

RespuestaBusqueda(answer, text_body) ==
    IF answer.kind = "error"
    THEN [pc |-> "send_text", respuesta |-> mensaje_error_generico, items |-> <<>>]
    ELSE IF answer.productos = <<>>
    THEN [pc |-> "send_text", respuesta |-> MensajeSinCoincidencias, items |-> <<>>]
    ELSE IF Len(answer.productos) > 1
    THEN [pc |-> "send_text", respuesta |-> MensajeVariosProductos(answer.productos),
          items |-> <<>>]
    ELSE [pc |-> "post", respuesta |-> <<>>,
          items |-> <<[codigo |-> answer.productos[1].codigo,
                       cantidad |-> CantidadLibre(text_body)]>>]

\* What the alias loop does with one answer (src/main.py:430-447):
\* "next" alias, "break" with data, or "raise".
PasoAliasSigueEnError(answer) ==
    IF answer.kind = "request_error" THEN "next"
    ELSE IF answer.code = 200 THEN (IF answer.data.kind = "bad_json" THEN "raise" ELSE "break")
    ELSE "next"

PasoAlias(answer) ==
    IF answer.kind = "request_error" THEN "next"
    ELSE IF answer.code = 200 THEN (IF answer.data.kind = "bad_json" THEN "raise" ELSE "break")
    ELSE IF answer.code \in {404, 405} THEN "next"
    ELSE "raise"

\* lines 449-456 on data: the text returned, None returned, or an exception
RespuestaDeData(data) ==
    IF data.kind \in {"none", "empty"}
    THEN [raises |-> FALSE, none |-> FALSE, text |-> mensaje_error_generico]
    ELSE IF ~data.ok
    THEN [raises |-> FALSE, none |-> FALSE,
          text |-> IF data.msg_kind = "str" /\ data.msg # <<>> THEN data.msg
                   ELSE mensaje_error_generico]
    ELSE IF data.msg_kind = "absent"
    THEN [raises |-> TRUE, none |-> FALSE, text |-> <<>>]
    ELSE IF data.msg_kind = "null"
    THEN [raises |-> FALSE, none |-> TRUE, text |-> <<>>]
    ELSE [raises |-> FALSE, none |-> FALSE, text |-> data.msg]

(***************************************************************************)
(* POST /webhook (src/main.py:481-548).  The handler is a coroutine: it    *)
(* runs without interruption between two awaits, and another task may run  *)
(* at each await.                                                          *)
(***************************************************************************)
\* the message in hand is finished: back to the top of the message loop
NextMessage(h) ==
    /\ pc' = [pc EXCEPT ![h] = "loop"]
    /\ msg' = [msg EXCEPT ![h] = NoMsg]
    /\ respuesta' = [respuesta EXCEPT ![h] = <<>>]
    /\ items' = [items EXCEPT ![h] = <<>>]
    /\ path' = [path EXCEPT ![h] = 1]

\* an exception left the handler: the framework answers with an error status
Abort(h) ==
    /\ pc' = [pc EXCEPT ![h] = "idle"]
    /\ ack' = [ack EXCEPT ![h] = "error"]
    /\ left' = [left EXCEPT ![h] = 0]
    /\ msg' = [msg EXCEPT ![h] = NoMsg]
    /\ respuesta' = [respuesta EXCEPT ![h] = <<>>]
    /\ items' = [items EXCEPT ![h] = <<>>]
    /\ path' = [path EXCEPT ![h] = 1]

\* lines 483-494: the body arrives; without entries the answer is "ignored",
\* otherwise the handler walks the n messages of the delivery
Receive(h) ==
    /\ h \in tasks
    /\ pc[h] = "idle"
    /\ \E entries \in BOOLEAN, n \in 0..MaxMsgs :
         IF entries
         THEN /\ pc' = [pc EXCEPT ![h] = "loop"]
              /\ left' = [left EXCEPT ![h] = n]
              /\ ack' = [ack EXCEPT ![h] = "none"]
         ELSE /\ ack' = [ack EXCEPT ![h] = "ignored"]
              /\ UNCHANGED <<pc, left>>
    /\ out' = [out EXCEPT ![h] = <<>>]
    /\ ev' = [ev EXCEPT ![h] = NoEv]
    /\ UNCHANGED <<PROCESSED_MESSAGES, config, parser, msg, respuesta, items, path, hist>>

\* lines 496-520 and the start of enviar_pedido_a_nortsur, up to its first await
BeginMessage(h) ==
    /\ h \in tasks
    /\ pc[h] = "loop"
    /\ left[h] > 0
    /\ \E id \in IdsIn(tasks, PROCESSED_MESSAGES), message \in MessagesIn(tasks) :
         LET dup == IsDuplicateResult(PROCESSED_MESSAGES, id)
             skip == dup \/ message.type # "text" \/ message.from = ""
             ini == PedidoInicioDe[NORTSUR_API_BASE_URL, message.body]
             branch == IF dup THEN "dup"
                       ELSE IF message.type # "text" THEN "not_text"
                       ELSE IF message.from = "" THEN "no_sender"
                       ELSE ini.branch
             gone == Range(PROCESSED_MESSAGES) \ Range(PROCESSED_MESSAGES')
         IN  /\ PROCESSED_MESSAGES' = ProcessedAfter(PROCESSED_MESSAGES, id)
             /\ left' = [left EXCEPT ![h] = @ - 1]
             /\ out' = [out EXCEPT ![h] = <<>>]
             /\ ev' = [g \in Handlers |->
                         IF g = h
                         THEN [NoEv EXCEPT !.member = id \in Range(PROCESSED_MESSAGES),
                                           !.branch = branch,
                                           !.body = IF skip THEN <<>>
                                                    ELSE Strip(message.body)]
                         ELSE [ev[g] EXCEPT !.evicted = @ \/ msg[g].id \in gone]]
             /\ IF skip
                THEN NextMessage(h)
                ELSE /\ pc' = [pc EXCEPT ![h] = ini.pc]
                     /\ msg' = [msg EXCEPT ![h] =
                                  [id |-> id, from |-> message.from,
                                   body |-> Strip(message.body)]]
                     /\ respuesta' = [respuesta EXCEPT ![h] = ini.respuesta]
                     /\ items' = [items EXCEPT ![h] = ini.items]
                     /\ path' = [path EXCEPT ![h] = 1]
    /\ UNCHANGED <<config, parser, ack, hist>>

\* line 347 and lines 348-359: the client lookup answers
BuscarCliente(h) ==
    /\ h \in tasks
    /\ pc[h] = "lookup"
    /\ \E answer \in LookupAnswers(tasks) :
         /\ respuesta' = [respuesta EXCEPT ![h] = RespuestaSaludo(answer)]
         /\ ev' = [ev EXCEPT ![h].lookup = answer]
    /\ pc' = [pc EXCEPT ![h] = "send_text"]
    /\ UNCHANGED <<PROCESSED_MESSAGES, config, parser, left, ack, msg, items, path, out, hist>>

\* line 369 and lines 370-409: the product search answers
BuscarProductos(h) ==
    /\ h \in tasks
    /\ pc[h] = "search"
    /\ \E answer \in SearchAnswers(tasks) :
         LET r == RespuestaBusqueda(answer, msg[h].body)
         IN  /\ pc' = [pc EXCEPT ![h] = r.pc]
             /\ respuesta' = [respuesta EXCEPT ![h] = r.respuesta]
             /\ items' = [items EXCEPT ![h] = r.items]
             /\ ev' = [ev EXCEPT ![h].search = answer.kind,
                                   ![h].nres = Len(answer.productos)]
    /\ UNCHANGED <<PROCESSED_MESSAGES, config, parser, left, ack, msg, path, out, hist>>

\* line 431 and lines 432-456, then 521-523: one alias answers the POST
PostPedido(h) ==
    /\ h \in tasks
    /\ pc[h] = "post"
    /\ \E answer \in PostAnswers(tasks) :
         LET paso == PasoAlias(answer)
             more == paso = "next" /\ path[h] < Len(posibles_paths)
             data == IF paso = "break" THEN answer.data ELSE NoData
             r == RespuestaDeData(data)
             seen == [ev[h] EXCEPT !.posts = @ + 1,
                                   !.asked = Append(@, posibles_paths[path[h]]),
                                   !.last = answer.code,
                                   !.created = @ + (IF answer.landed THEN 1 ELSE 0),
                                   !.data = IF paso = "break" THEN answer.data ELSE @]
         IN  /\ ev' = [ev EXCEPT ![h] = seen]
             /\ IF more
                THEN /\ path' = [path EXCEPT ![h] = @ + 1]
                     /\ UNCHANGED <<pc, respuesta, left, ack, msg, items>>
                ELSE IF paso # "raise" /\ r.none
                THEN Abort(h)
                ELSE /\ pc' = [pc EXCEPT ![h] = "send_text"]
                     /\ respuesta' = [respuesta EXCEPT ![h] =
                                        IF paso = "raise" \/ r.raises
                                        THEN mensaje_error_generico ELSE r.text]
                     /\ UNCHANGED <<path, left, ack, msg, items>>
    /\ UNCHANGED <<PROCESSED_MESSAGES, config, parser, out, hist>>

\* respuesta and send_no_cliente_images after lines 526-528
TextoSinMarca(r) ==
    IF StartsWith(r, MarcaNoCliente) THEN SubSeq(r, Len(MarcaNoCliente) + 1, Len(r)) ELSE r

\* lines 526-534: the marker is taken off and the text is sent; the send
\* may fail, which is logged and nothing else
SendText(h) ==
    /\ h \in tasks
    /\ pc[h] = "send_text"
    /\ \E ok \in SendOutcomes(tasks) :
         out' = [out EXCEPT ![h] =
                   Append(@, [kind |-> "text", to |-> msg[h].from,
                              text |-> TextoSinMarca(respuesta[h]), url |-> <<>>,
                              ok |-> ok])]
    /\ IF StartsWith(respuesta[h], MarcaNoCliente) /\ IMGS_NO_CLIENTE # <<>>
       THEN /\ pc' = [pc EXCEPT ![h] = "send_image"]
            /\ respuesta' = [respuesta EXCEPT ![h] = TextoSinMarca(respuesta[h])]
            /\ path' = [path EXCEPT ![h] = 1]
            /\ UNCHANGED <<msg, items>>
       ELSE NextMessage(h)
    /\ UNCHANGED <<PROCESSED_MESSAGES, config, parser, left, ack, ev, hist>>

\* lines 537-546: the next image of IMGS_NO_CLIENTE is sent
SendImage(h) ==
    /\ h \in tasks
    /\ pc[h] = "send_image"
    /\ \E ok \in SendOutcomes(tasks) :
         out' = [out EXCEPT ![h] =
                   Append(@, [kind |-> "image", to |-> msg[h].from, text |-> <<>>,
                              url |-> IMGS_NO_CLIENTE[path[h]], ok |-> ok])]
    /\ IF path[h] < Len(IMGS_NO_CLIENTE)
       THEN /\ path' = [path EXCEPT ![h] = @ + 1]
            /\ UNCHANGED <<pc, msg, respuesta, items>>
       ELSE NextMessage(h)
    /\ UNCHANGED <<PROCESSED_MESSAGES, config, parser, left, ack, ev, hist>>

\* line 548: every message was looked at
EndDelivery(h) ==
    /\ h \in tasks
    /\ pc[h] = "loop"
    /\ left[h] = 0
    /\ pc' = [pc EXCEPT ![h] = "idle"]
    /\ ack' = [ack EXCEPT ![h] = "ok"]
    /\ out' = [out EXCEPT ![h] = <<>>]
    /\ ev' = [ev EXCEPT ![h] = NoEv]
    /\ UNCHANGED <<PROCESSED_MESSAGES, config, parser, left, msg, respuesta, items, path, hist>>

Next ==
    \/ \E h \in Handlers : Receive(h)
    \/ \E h \in Handlers : BeginMessage(h)
    \/ \E h \in Handlers : BuscarCliente(h)
    \/ \E h \in Handlers : BuscarProductos(h)
    \/ \E h \in Handlers : PostPedido(h)
    \/ \E h \in Handlers : SendText(h)
    \/ \E h \in Handlers : SendImage(h)
    \/ \E h \in Handlers : EndDelivery(h)

NextDedup == \E id \in Ids \cup FalsyIds : IsDuplicateCall(id)

\* one webhook delivery at a time
Spec == Init /\ [][Next]_vars

\* two overlapping webhook deliveries
SpecConc == InitConc /\ [][Next]_vars

\* the duplicate filter on its own
SpecDedup == InitDedup /\ [][NextDedup]_vars

NextParse == ParseItems

\* the order text parser on its own
SpecParse == InitParse /\ [][NextParse]_vars

(***************************************************************************)
(* Properties.                                                             *)
(***************************************************************************)
InFlight(h) == pc[h] \in {"lookup", "search", "post", "send_text", "send_image"}

\* the message h last began is finished (its sends and backend calls are
\* all in out[h] and ev[h])
Finished(h) == pc[h] = "loop" /\ ev[h].branch # "none"

NoBackendCall(h) ==
    ev[h].lookup.kind = "none" /\ ev[h].search = "none" /\ ev[h].posts = 0

\* the sends of out[h] without their outcome
Sends(h) == [i \in 1..Len(out[h]) |-> [kind |-> out[h][i].kind, to |-> out[h][i].to,
                                        text |-> out[h][i].text, url |-> out[h][i].url]]

TextSend(text) == [kind |-> "text", to |-> Phone, text |-> text, url |-> <<>>]

ImageSend(url) == [kind |-> "image", to |-> Phone, text |-> <<>>, url |-> url]

IsPrefix(s, t) == Len(s) <= Len(t) /\ SubSeq(t, 1, Len(s)) = s

\* C1: a message whose non-empty id is in PROCESSED_MESSAGES when it is
\* delivered again is skipped as a duplicate: no send and no backend call is
\* made for it, so the sends made for that id stay those of its first delivery.
C1_ReplayIsSilent ==
    \A h \in Handlers :
        ev[h].member =>
            /\ ev[h].branch = "dup"
            /\ pc[h] = "loop"
            /\ out[h] = <<>>
            /\ NoBackendCall(h)

\* a replayed message was met while its id was still in the deque
C1_Witness ==
    \E h \in Handlers : ev[h].member /\ ev[h].branch = "dup" /\ PROCESSED_MESSAGES # <<>>

\* The last direct call inserted its id into a full deque.
LastCallInsertedIntoFull ==
    /\ hist # <<>>
    /\ Len(hist[Len(hist)].before) = Capacity
    /\ hist[Len(hist)].id \notin FalsyIds
    /\ ~hist[Len(hist)].dup

\* C2: PROCESSED_MESSAGES never holds more than its capacity of ids, and an
\* insertion into a full deque removes exactly the oldest id: the deque
\* becomes its former content without the first id, followed by the new id.
C2_BoundedFifo ==
    /\ Len(PROCESSED_MESSAGES) <= Capacity
    /\ Cardinality(Range(PROCESSED_MESSAGES)) = Len(PROCESSED_MESSAGES)
    /\ LastCallInsertedIntoFull =>
         PROCESSED_MESSAGES = Append(Tail(hist[Len(hist)].before), hist[Len(hist)].id)

C2_Witness == LastCallInsertedIntoFull

\* the index of the call that last inserted id i before call k, 0 if none
LastInsertion(i, k) ==
    IF \E j \in 1..(k - 1) : hist[j].id = i /\ ~hist[j].dup
    THEN CHOOSE j \in 1..(k - 1) :
            /\ hist[j].id = i /\ ~hist[j].dup
            /\ \A l \in (j + 1)..(k - 1) : ~(hist[l].id = i /\ ~hist[l].dup)
    ELSE 0

\* the distinct ids inserted by the calls j .. k-1
InsertedBetween(j, k) ==
    {hist[l].id : l \in {m \in j..(k - 1) : hist[m].id \notin FalsyIds /\ ~hist[m].dup}}

\* call k is a call on id i after capacity+1 distinct ids were inserted,
\* the first of them i
AfterEviction(k) ==
    /\ LastInsertion(hist[k].id, k) > 0
    /\ Cardinality(InsertedBetween(LastInsertion(hist[k].id, k), k)) >= Capacity + 1

\* C3: for a non-empty id i, the first is_duplicate_message(i) returns
\* false, a call that immediately follows a call on i returns true, and a
\* call made after capacity+1 distinct ids were inserted starting with i
\* returns false again.
C3_FirstSecondEvicted ==
    \A k \in 1..Len(hist) :
        hist[k].id \notin FalsyIds =>
            /\ (\A j \in 1..(k - 1) : hist[j].id # hist[k].id) => ~hist[k].dup
            /\ (k > 1 /\ hist[k - 1].id = hist[k].id) => hist[k].dup
            /\ AfterEviction(k) => ~hist[k].dup

\* one id went through all three cases: false, then true, then false
\* again once capacity more ids were inserted
C3_Witness ==
    \E k \in 3..Len(hist) :
        /\ hist[1].id = hist[k].id /\ hist[2].id = hist[k].id
        /\ ~hist[1].dup /\ hist[2].dup
        /\ AfterEviction(k) /\ ~hist[k].dup

NoClientAnswer(a) == a.kind \in {"request_error", "status_404", "status_other", "bad_json"}

WelcomeThenImages ==
    <<TextSend(mensaje_bienvenida(<<>>, FALSE))>>
        \o [i \in 1..Len(IMGS_NO_CLIENTE) |-> ImageSend(IMGS_NO_CLIENTE[i])]

\* C5: for a greeting whose client lookup finds no client, the sends are the
\* generic welcome text, then one image per URL of IMGS_NO_CLIENTE in listing
\* order: at every moment the sends made so far are a prefix of that
\* sequence, and all of it once the message is finished.
C5_WelcomeThenImages ==
    \A h \in Handlers :
        (ev[h].branch = "saludo" /\ NoClientAnswer(ev[h].lookup)) =>
            /\ IsPrefix(Sends(h), WelcomeThenImages)
            /\ Finished(h) => Sends(h) = WelcomeThenImages

C5_Witness ==
    \E h \in Handlers :
        /\ ev[h].branch = "saludo" /\ NoClientAnswer(ev[h].lookup)
        /\ Finished(h)
        /\ Len(IMGS_NO_CLIENTE) >= 2
        /\ Len(out[h]) = 1 + Len(IMGS_NO_CLIENTE)

\* C6: for a greeting, whenever the lookup returns a client record, the
\* reply is the personalized welcome and no image is sent.
C6_ClientRecordGetsPersonalWelcome ==
    \A h \in Handlers :
        (Finished(h) /\ ev[h].branch = "saludo" /\ ev[h].lookup.kind = "json") =>
            Sends(h) = <<TextSend(mensaje_bienvenida(ev[h].lookup.nombre, TRUE))>>

\* C7: while one message is handled, at most one POST across the aliases
\* creates an order at the backend (a POST that ended in a transport error
\* may have created one).
C7_AtMostOneOrderCreated == \A h \in Handlers : ev[h].created <= 1

\* the alias loop ended on a 200 whose body says ok with a message
SuccessWithMessage(h) ==
    ev[h].data.kind = "dict" /\ ev[h].data.ok /\ ev[h].data.msg_kind = "str"

\* C8: when an alias answers 200 with ok=true and a message, the message is
\* answered with exactly one text send whose body is that message verbatim,
\* and that alias is the last one called.
C8_SuccessReplyVerbatim ==
    \A h \in Handlers :
        (Finished(h) /\ SuccessWithMessage(h)) =>
            /\ Sends(h) = <<TextSend(ev[h].data.msg)>>
            /\ ev[h].last = 200

\* the alias loop ended on a 200 whose body says ok=false
Rejected(h) == ev[h].data.kind = "dict" /\ ~ev[h].data.ok

\* C9: if no alias answers 200 the reply is the generic failure text; if
\* the backend answers 200 with ok=false the reply is its message when it
\* supplies one and the generic failure text otherwise.
C9_FailureReplies ==
    \A h \in Handlers :
        Finished(h) =>
            /\ (ev[h].posts > 0 /\ ev[h].last # 200) =>
                   Sends(h) = <<TextSend(mensaje_error_generico)>>
            /\ Rejected(h) =>
                   Sends(h) = <<TextSend(IF ev[h].data.msg_kind = "str" /\ ev[h].data.msg # <<>>
                                         THEN ev[h].data.msg
                                         ELSE mensaje_error_generico)>>

\* the one text of the free-text branch when n # 1 products matched
NoOrderText(n) ==
    IF n = 0 THEN MensajeSinCoincidencias
    ELSE MensajeVariosProductos(
             (CHOOSE a \in SearchAnswers({1}) : Len(a.productos) = n).productos)

\* C10: in the free-text branch, when the search returns no product or more
\* than one, no order-creation POST is made for the message and exactly one
\* text is sent (the nothing-matched guidance or the candidate list); a POST
\* is made only when exactly one product matched.
C10_OrderOnlyOnSingleMatch ==
    \A h \in Handlers :
        ev[h].branch = "descripcion" =>
            /\ (ev[h].search = "json" /\ ev[h].nres # 1) =>
                   /\ ev[h].posts = 0 /\ ev[h].created = 0 /\ pc[h] # "post"
                   /\ IsPrefix(Sends(h), <<TextSend(NoOrderText(ev[h].nres))>>)
                   /\ Finished(h) => Sends(h) = <<TextSend(NoOrderText(ev[h].nres))>>
            /\ (ev[h].posts > 0 \/ pc[h] = "post") =>
                   (ev[h].search = "json" /\ ev[h].nres = 1)

C10_Witness ==
    \E h \in Handlers :
        /\ Finished(h) /\ ev[h].branch = "descripcion"
        /\ ev[h].search = "json" /\ ev[h].nres > 1
        /\ Len(out[h]) = 1

\* the message h began passed the duplicate, type and sender tests
Processed(h) == ev[h].branch \notin {"none", "dup", "not_text", "no_sender"}

\* the one text a message with an empty body is answered with
TextoCuerpoVacio ==
    IF NORTSUR_API_BASE_URL THEN mensaje_formato_inicial ELSE mensaje_error_generico

\* C11 as stated: a non-duplicate message that is not a text, or whose body
\* is empty, is answered with exactly one guidance text and no backend call.
C11_GuidanceForNonTextOrEmpty ==
    \A h \in Handlers :
        (Finished(h) /\ (ev[h].branch = "not_text" \/ (Processed(h) /\ ev[h].body = <<>>))) =>
            /\ Sends(h) = <<TextSend(mensaje_formato_inicial)>>
            /\ NoBackendCall(h)

\* C11 amended: a non-duplicate message that is not a text is skipped, with
\* no send and no backend call; a non-duplicate text message with a sender
\* and a body that is empty once trimmed is answered with exactly one text,
\* the format guidance (the generic failure text when the backend base URL
\* is not configured), and no backend call.
C11_SkipOrGuidance ==
    \A h \in Handlers :
        /\ ev[h].branch = "not_text" =>
               /\ pc[h] = "loop" /\ out[h] = <<>> /\ NoBackendCall(h)
        /\ (Processed(h) /\ ev[h].body = <<>>) =>
               /\ NoBackendCall(h)
               /\ pc[h] \in {"send_text", "loop"}
               /\ IsPrefix(Sends(h), <<TextSend(TextoCuerpoVacio)>>)
               /\ Finished(h) => Sends(h) = <<TextSend(TextoCuerpoVacio)>>

\* a message with a blank body was answered with the format guidance
C11_Witness ==
    \E h \in Handlers :
        /\ Finished(h) /\ ev[h].branch = "empty" /\ ev[h].body = <<>>
        /\ Sends(h) = <<TextSend(mensaje_formato_inicial)>>

\* C12: whatever fails while a message is handled, nothing escapes the
\* handling of that message: the handler never ends in an error answer in
\* place of its acknowledgment (an exception that leaves the handler also
\* drops the messages of the delivery not yet handled).
C12_AlwaysAcknowledged == \A h \in Handlers : ack[h] \in {"none", "ignored", "ok"}

\* the body is an admin command with verb cancel or reopen, an order id and
\* no reason
AdminSinMotivo(body) ==
    LET toks == SplitWhitespace(body)
    IN  /\ Len(toks) = 2
        /\ Lower(toks[1]) \in {<<"c","a","n","c","e","l","a","r">>,
                               <<"r","e","a","b","r","i","r">>}
        /\ toks[2] # <<>> /\ \A i \in 1..Len(toks[2]) : IsDigit(toks[2][i])

\* C13: a message whose body is an admin command with verb cancel or reopen
\* and no reason is answered with exactly two text sends, the usage text and
\* then the order summary.
C13_UsageThenSummary ==
    \A h \in Handlers :
        (Finished(h) /\ Processed(h) /\ NORTSUR_API_BASE_URL
                     /\ AdminSinMotivo(ev[h].body)) =>
            /\ Len(out[h]) = 2
            /\ \A i \in 1..Len(out[h]) : out[h][i].kind = "text"

\* C14: every item of an order-creation request has a quantity that is a
\* positive integer, in the coded-order branch and in the single-match
\* free-text branch.
C14_QuantitiesPositive ==
    \A h \in Handlers :
        pc[h] = "post" =>
            /\ items[h] # <<>>
            /\ \A i \in 1..Len(items[h]) : items[h][i].cantidad >= 1

\* statuses after which the alias loop goes on to the next alias
TryNextStatuses == {404, 405}

\* the last POST of h was answered with an error status that is not one of
\* those (ev.last is 0 after a transport error)
FatalStatus(h) == ev[h].posts > 0 /\ ev[h].last \notin ({0, 200} \cup TryNextStatuses)

\* C15: the order POSTs of one message go to the aliases of posibles_paths
\* in their order, at most 4 of them; no POST follows a 200; after a 404 or
\* 405 the next alias is asked (while one is left); after any other error
\* status no further alias is asked and the sender gets the generic failure
\* text.
C15_AliasProbing ==
    \A h \in Handlers :
        /\ ev[h].posts <= Len(posibles_paths) /\ Len(posibles_paths) = 4
        /\ ev[h].asked = SubSeq(posibles_paths, 1, ev[h].posts)
        /\ pc[h] = "post" =>
               /\ ev[h].posts < Len(posibles_paths) /\ path[h] = ev[h].posts + 1
               /\ ev[h].posts > 0 => ev[h].last # 200 /\ ~FatalStatus(h)
        /\ (ev[h].last \in TryNextStatuses /\ ev[h].posts < Len(posibles_paths)) =>
               pc[h] = "post"
        /\ FatalStatus(h) =>
               /\ pc[h] \in {"send_text", "loop"}
               /\ pc[h] = "send_text" => respuesta[h] = mensaje_error_generico
               /\ IsPrefix(Sends(h), <<TextSend(mensaje_error_generico)>>)
               /\ Finished(h) => Sends(h) = <<TextSend(mensaje_error_generico)>>

\* two aliases answered 404 or 405, the third a fatal status: the fourth
\* was not asked and the generic failure text was sent
C15_Witness ==
    \E h \in Handlers :
        /\ Finished(h) /\ FatalStatus(h) /\ ev[h].posts = 3
        /\ Sends(h) = <<TextSend(mensaje_error_generico)>>

\* PROCESSED_MESSAGES right after the k-th direct call
DequeAfterCall(k) == IF k < Len(hist) THEN hist[k + 1].before ELSE PROCESSED_MESSAGES

\* C16: is_duplicate_message leaves PROCESSED_MESSAGES as it was when called
\* with a missing or empty id, for which it returns false, and whenever it
\* returns true; the deque changes only on a call with a non-empty id it
\* does not hold, and on such a call it does change.
C16_FrameOfIsDuplicate ==
    \A k \in 1..Len(hist) :
        /\ hist[k].id \in FalsyIds =>
               ~hist[k].dup /\ DequeAfterCall(k) = hist[k].before
        /\ hist[k].dup => DequeAfterCall(k) = hist[k].before
        /\ DequeAfterCall(k) # hist[k].before <=>
               (hist[k].id \notin FalsyIds /\ hist[k].id \notin Range(hist[k].before))

\* on a deque that holds ids: a call without id, and a call that returned true
C16_Witness ==
    \E j \in 1..Len(hist), k \in 1..Len(hist) :
        /\ hist[j].id \in FalsyIds /\ hist[j].before # <<>>
        /\ hist[k].dup /\ hist[k].before # <<>>

\* the non-empty comma- or line-delimited entries of a text, trimmed, in
\* order of appearance
Entries(t) ==
    LET cut == SplitAll(t, {",", "\n"}, <<>>)
    IN  SelectSeq([i \in 1..Len(cut) |-> Strip(cut[i])], LAMBDA e : e # <<>>)

\* the first token of a trimmed entry: its characters up to the first blank
RECURSIVE FirstToken(_)
FirstToken(e) ==
    IF e = <<>> \/ IsSpace(Head(e)) THEN <<>> ELSE <<Head(e)>> \o FirstToken(Tail(e))

\* C17: parse_items_from_text returns exactly one item per non-empty comma-
\* or line-delimited entry of the text, in order of appearance, with the
\* entry's first token upper-cased as code; repeated codes give repeated
\* items and a text without entries gives the empty list.
C17_OneItemPerEntry ==
    parse_out.done =>
        /\ ~parse_out.raises
        /\ Len(parse_out.items) = Len(Entries(parse_in))
        /\ \A i \in 1..Len(parse_out.items) :
               parse_out.items[i].codigo = Upper(FirstToken(Entries(parse_in)[i]))

\* a token is a number as the claim reads it: decimal digits, with or
\* without a minus sign
IsNumber(tok) ==
    \/ (tok # <<>> /\ \A i \in 1..Len(tok) : IsDigit(tok[i]))
    \/ (Len(tok) > 1 /\ tok[1] = "-" /\ \A i \in 2..Len(tok) : IsDigit(tok[i]))

NumberOf(tok) == IF tok[1] = "-" THEN 0 - IntOf(Tail(tok)) ELSE IntOf(tok)

\* the quantity the claim gives an entry with these tokens after its code
RECURSIVE QuantityClaimed(_)
QuantityClaimed(toks) ==
    IF toks = <<>> THEN 1
    ELSE IF IsNumber(RemoveChar(Lower(Head(toks)), "x"))
    THEN NumberOf(RemoveChar(Lower(Head(toks)), "x"))
    ELSE QuantityClaimed(Tail(toks))

\* C18: for each entry, the quantity is the integer value of the first token
\* after the code that, lower-cased and without its x characters, is a
\* number (all digits; negative numbers and zero are accepted as parsed),
\* later tokens being ignored; a lone "x" is skipped and the quantity is 1
\* when there is no such token.
C18_QuantityRule ==
    parse_out.done =>
        /\ ~parse_out.raises
        /\ Len(parse_out.items) = Len(Entries(parse_in))
        /\ \A i \in 1..Len(parse_out.items) :
               parse_out.items[i].cantidad =
                   QuantityClaimed(Tail(SplitWhitespace(Entries(parse_in)[i])))

\* the greeting keywords of the classifier as specified: those of the code
\* and "hi", "hello"
GreetingKeywords == PalabrasSaludo \cup {<<"h","i">>, <<"h","e","l","l","o">>}

\* the body holds one of the words as a substring, whatever its case
TieneSaludo(body, palabras) ==
    \E i \in 1..Len(body), palabra \in palabras :
        /\ i + Len(palabra) - 1 <= Len(body)
        /\ \A j \in 1..Len(palabra) : ToLower(body[i + j - 1]) = palabra[j]

\* what each trimmed body of the model holds, computed once
Holds ==
    [b \in {Strip(x) : x \in AllBodies} |->
        [saludo |-> TieneSaludo(b, GreetingKeywords), codigo |-> contiene_codigos(b)]]

\* C19: the greeting test comes before the code test.  A body with a
\* greeting keyword as a substring is handled as a greeting even when it
\* also holds a code-shaped token: the client is looked up, the reply is a
\* welcome, and no order-creation POST and no product search is made.  A
\* body with a code-shaped token and no greeting keyword is handled as a
\* coded order and never reaches the product search.  (Handled as: when the
\* backend base URL is configured; without it every body gets the generic
\* failure text and no backend call.)
C19_GreetingBeforeCodes ==
    \A h \in Handlers :
        Processed(h) =>
            /\ Holds[ev[h].body].saludo =>
                   /\ ev[h].posts = 0 /\ ev[h].created = 0 /\ ev[h].search = "none"
                   /\ pc[h] \notin {"post", "search"}
                   /\ NORTSUR_API_BASE_URL =>
                          /\ ev[h].branch = "saludo"
                          /\ Finished(h) =>
                                 /\ ev[h].lookup.kind # "none"
                                 /\ Sends(h)[1] =
                                        TextSend(TextoSinMarca(RespuestaSaludo(ev[h].lookup)))
            /\ (Holds[ev[h].body].codigo /\ ~Holds[ev[h].body].saludo) =>
                   /\ ev[h].search = "none" /\ ev[h].lookup.kind = "none"
                   /\ pc[h] \notin {"search", "lookup"}
                   /\ NORTSUR_API_BASE_URL => ev[h].branch = "codigos"

\* the text sends among the sends made for the message of h
TextSends(h) == SelectSeq(Sends(h), LAMBDA m : m.kind = "text")

\* C20: a message that is not a duplicate, is a text and has a sender gets
\* exactly one text-send attempt, to that sender, on every branch and under
\* every backend failure or exception: never more than one, and one once
\* its handling is over, however it ended.
C20_ExactlyOneTextSend ==
    \A h \in Handlers :
        Processed(h) =>
            /\ Len(TextSends(h)) <= 1
            /\ \A i \in 1..Len(TextSends(h)) : TextSends(h)[i].to = Phone
            /\ pc[h] \in {"loop", "idle"} => Len(TextSends(h)) = 1

\* C21: an image is sent only for a message handled in the greeting branch
\* whose lookup found no client; no reply of the order or product-search
\* branches, whatever text the backend supplies as its message, causes an
\* image send.
C21_ImagesOnlyForNonClientGreeting ==
    \A h \in Handlers :
        (pc[h] = "send_image" \/ \E i \in 1..Len(out[h]) : out[h][i].kind = "image") =>
            /\ ev[h].branch = "saludo"
            /\ NoClientAnswer(ev[h].lookup)

====
